---- MODULE Spec2Model ----
(***************************************************************************)
(* HFS (hash file system): the LocalPool storage layer of src/hfs.py as a  *)
(* state machine over an on-disk pool directory shared by Pool instances,  *)
(* and the Node structure layer (commit / load / open) as operators over a *)
(* blob store.                                                             *)
(***************************************************************************)
EXTENDS Integers, Sequences, FiniteSets, TLC

\* ------------------------------------------------------------ constants
\* Program constants.
HASHLEN == 64
PACKLIMIT == 1024
\* The two-hex-digit names a directory can give its subdirectories
FANOUT == 256
\* The entries LocalPool documents as the most a directory holds
DIRMAX == 512
\* a fan-out limit as large as DIRMAX
LooseLimit == 2 * FANOUT
DIRLIMIT == 250
BLKSIZE == 262144

\* Bounds of the model.
MaxCalls == 5
MaxShared == 3
MaxStale == 1

\* The Pool instances (processes) that share the pool directory.
Pools == {"A", "B"}

Min(a, b) == IF a < b THEN a ELSE b

\* ------------------------------------------------------------ bytes
\* A byte string is the slice lo..hi of the (non-repeating) byte source
\* src; the empty byte string is the same whatever its source.
Empty == [src |-> 0, lo |-> 0, hi |-> 0]
Norm(b) == IF b.lo >= b.hi THEN Empty ELSE b
BLen(b) == b.hi - b.lo
\* b[from:to]
Slice(b, from, to) ==
    Norm([src |-> b.src, lo |-> b.lo + Min(from, BLen(b)),
          hi |-> b.lo + Min(to, BLen(b))])
\* a + b, for b the bytes that follow a in the same source
Cat(a, b) ==
    IF a = Empty THEN b
    ELSE IF b = Empty THEN a
    ELSE [src |-> a.src, lo |-> a.lo, hi |-> b.hi]

\* The contents put into the pool: one below the pack threshold, one at it,
\* one that iomap reads in more than one block.
Lens == {PACKLIMIT - 1, PACKLIMIT, BLKSIZE + 2}
Contents == {[src |-> 1, lo |-> 0, hi |-> n] : n \in Lens}

\* ------------------------------------------------------------ hashing
\* n as w hexadecimal digits, most significant first
RECURSIVE HexDigits(_, _)
HexDigits(n, w) ==
    IF w = 0 THEN <<>> ELSE Append(HexDigits(n \div 16, w - 1), n % 16)

Zeros(n) == [i \in 1..n |-> 0]

\* HASH(b).hexdigest(): a sequence of HASHLEN hexadecimal digits, different
\* for different byte strings.  Byte strings of the same length parity share
\* their first two digits.
HASH(b) ==
    <<0, BLen(b) % 2>> \o HexDigits(b.src, 2) \o HexDigits(b.lo, 5)
        \o HexDigits(b.hi, 5) \o Zeros(HASHLEN - 14)

Keys == {HASH(b) : b \in Contents}

\* file.read(blksize) on a stream over data at position pos
Read(data, pos, blksize) == Slice(data, pos, pos + blksize)

\* iomap(func, file): the chunks handed to func, in order
RECURSIVE iomap(_, _, _)
iomap(data, pos, blksize) ==
    LET buffer == Read(data, pos, blksize) IN
    IF buffer = Empty THEN <<>>
    ELSE <<buffer>> \o iomap(data, pos + BLen(buffer), blksize)

\* hashobj.update / f.write applied to each chunk in turn
RECURSIVE Feed(_, _)
Feed(acc, chunks) ==
    IF chunks = <<>> THEN acc ELSE Feed(Cat(acc, Head(chunks)), Tail(chunks))

\* ------------------------------------------------------------ state
VARIABLES
    files,      \* the object files of the pool tree: path -> bytes
    dirs,       \* the trie subdirectories of the pool tree (paths)
    filler,     \* entries of the pool root that no key of the model names:
                \* objects, and subdirectories for other leading digits
    packfile,   \* _pack.pickle: [exists, tab]
    stale,      \* files left behind in the staging directory _ (MaxStale
                \* of them at most are recorded)
    pack,       \* pack[p]: the in-memory pack table of instance p
    op,         \* op[p]: the call instance p is executing and its locals
    stored,     \* stored[p]: the puts that have returned on instance p:
                \* [data, key, packed]
    durable,    \* durable[p]: the packed puts of p that a flush of p that
                \* has returned came after
    overlapped, \* some flush renamed a pack file built from a read that is
                \* older than another flush's rename
    budget,     \* the calls that may still be started
    inputs,     \* the contents the callers put
    nstore,     \* the pool under an HFS: key -> blob
    subj,       \* a node built by a caller
    twin,       \* a node built from the same entries in another order
    done,       \* the keys returned by the commits of subj, twin and loaded
    loaded,     \* what Node.load made of subj's envelope: [err, node]
    root,       \* the root key the HFS is bound to
    shape,      \* the number of children of the list of the mounted tree
    result,     \* the outcome of the latest open or getattr
    snap        \* a call of snapshot: the directory tree it walks, its
                \* options, its keys memo and its frames

pvars == <<files, dirs, filler, packfile, stale, pack, op, stored, durable,
           overlapped, budget, inputs>>
nvars == <<nstore, subj, twin, done, loaded, root, shape, result, snap>>
vars == <<pvars, nvars>>

Root == <<>>
NoPath == <<>>
NoKey == <<>>
EmptyPack == [k \in {} |-> Empty]

\* dict.update
Update(d, e) ==
    [k \in DOMAIN d \cup DOMAIN e |-> IF k \in DOMAIN e THEN e[k] ELSE d[k]]

\* pickle.dump / pickle.load of a pack table
PickleDump(d) == {<<k, d[k]>> : k \in DOMAIN d}
\* a load that reads no entry
PickleLoadEmpty(s) == EmptyPack
PickleLoad(s) == [k \in {e[1] : e \in s} |-> (CHOOSE e \in s : e[1] = k)[2]]

IdleOp ==
    [pc |-> "idle", call |-> "none", kind |-> "none", data |-> Empty,
     pos |-> 0, hash |-> Empty, key |-> NoKey, path |-> NoPath,
     mk |-> NoPath, tmp |-> FALSE, tdata |-> Empty, ttab |-> {},
     packed |-> FALSE, over |-> FALSE, err |-> "none", rdata |-> Empty,
     rsize |-> 0]

\* ------------------------------------------------------------ pool tree
Parent(path) == SubSeq(path, 1, Len(path) - 1)

\* an exists() that finds nothing
ExistsNever(path) == FALSE

\* pathlib.Path.exists
Exists(path) == path = Root \/ path \in DOMAIN files \/ path \in dirs

\* a count that leaves out the staging directory
CountNoStaging(dir) ==
    Cardinality({q \in DOMAIN files \cup dirs : Parent(q) = dir})
    + (IF dir = Root
       THEN filler + (IF packfile.exists THEN 1 ELSE 0)
       ELSE 0)

\* len(list(dir.iterdir())): the staging directory _ and the pack file live
\* in the root
Count(dir) ==
    Cardinality({q \in DOMAIN files \cup dirs : Parent(q) = dir})
    + (IF dir = Root
       THEN 1 + filler + (IF packfile.exists THEN 1 ELSE 0)
       ELSE 0)

\* __truediv__ with the subdirectory looked into before the file
RECURSIVE truedivSubdirFirst(_, _, _)
truedivSubdirFirst(path, other, i) ==
    IF i >= HASHLEN THEN [path |-> NoPath, mk |-> NoPath]
    ELSE
        LET rest == SubSeq(other, i + 1, HASHLEN)
            sub == Append(path, SubSeq(other, i + 1, i + 2))
        IN  IF Exists(sub)
            THEN truedivSubdirFirst(sub, other, i + 2)
            ELSE IF Exists(Append(path, rest)) \/ Count(path) < DIRLIMIT
            THEN [path |-> Append(path, rest), mk |-> NoPath]
            ELSE [path |-> Append(sub, SubSeq(other, i + 3, HASHLEN)),
                  mk |-> sub]

\* __truediv__ that makes the subdirectory whatever the count
RECURSIVE truedivNoCount(_, _, _)
truedivNoCount(path, other, i) ==
    IF i >= HASHLEN THEN [path |-> NoPath, mk |-> NoPath]
    ELSE
        LET rest == SubSeq(other, i + 1, HASHLEN)
            sub == Append(path, SubSeq(other, i + 1, i + 2))
        IN  IF Exists(Append(path, rest))
            THEN [path |-> Append(path, rest), mk |-> NoPath]
            ELSE IF ~Exists(sub)
            THEN [path |-> Append(sub, SubSeq(other, i + 3, HASHLEN)),
                  mk |-> sub]
            ELSE truedivNoCount(sub, other, i + 2)

\* LocalPool.__truediv__ from loop index i on: the path for key other, and
\* the directory it has to create first (NoPath when none)
RECURSIVE truediv(_, _, _)
truediv(path, other, i) ==
    IF i >= HASHLEN THEN [path |-> NoPath, mk |-> NoPath]
    ELSE
        LET rest == SubSeq(other, i + 1, HASHLEN)
            sub == Append(path, SubSeq(other, i + 1, i + 2))
        IN  IF Exists(Append(path, rest))
            THEN [path |-> Append(path, rest), mk |-> NoPath]
            ELSE IF ~Exists(sub)
            THEN IF Count(path) < DIRLIMIT
                 THEN [path |-> Append(path, rest), mk |-> NoPath]
                 ELSE [path |-> Append(sub, SubSeq(other, i + 3, HASHLEN)),
                       mk |-> sub]
            ELSE truediv(sub, other, i + 2)

\* ------------------------------------------------------------ Init
\* A Pool instance opened on each of Pools over a pool directory that holds
\* no object of Keys yet: empty, or with objects of other keys in its root.
NoNode == [type |-> "none", data |-> <<>>, attrs |-> <<>>, size |-> -1]
NoKeys == [k1 |-> <<>>, kt |-> <<>>, k2 |-> <<>>]
NotLoaded == [err |-> "unset", node |-> NoNode]
NoResult == [call |-> "none", path |-> <<>>, err |-> "none", node |-> NoNode,
             errno |-> "none", mode |-> 0, size |-> 0]

\* No snapshot is being made
NoSnap == [out |-> "none"]

\* No HFS is in use
NodesAtRest ==
    /\ nstore = EmptyPack
    /\ subj = NoNode
    /\ twin = NoNode
    /\ done = NoKeys
    /\ loaded = NotLoaded
    /\ root = <<>>
    /\ shape = 0
    /\ result = NoResult
    /\ snap = NoSnap

StartWith(n, given, fillers) ==
    /\ NodesAtRest
    /\ files = [q \in {} |-> Empty]
    /\ dirs = {}
    /\ filler \in fillers
    /\ packfile = [exists |-> FALSE, tab |-> {}]
    /\ stale = {}
    /\ pack = [p \in Pools |-> EmptyPack]
    /\ op = [p \in Pools |-> IdleOp]
    /\ stored = [p \in Pools |-> {}]
    /\ durable = [p \in Pools |-> {}]
    /\ overlapped = FALSE
    /\ budget = n
    /\ inputs = given

Start(n, given) == StartWith(n, given, {0, DIRLIMIT - 2})

Init == Start(MaxCalls, Contents)

\* The instances that share a directory put a packed content and one that
\* is written in more than one block.
SharedContents == {b \in Contents : BLen(b) # PACKLIMIT}
SharedInit == Start(MaxShared, SharedContents)

Idle(p) == op[p].pc = "idle"

\* Instance p starts a call
Begin(p) ==
    /\ Idle(p)
    /\ budget > 0
    /\ budget' = budget - 1
    /\ UNCHANGED <<inputs, nvars>>

\* __init__ that starts from an empty pack table
LoadPackEmpty == EmptyPack

\* LocalPool.__init__: the pack table of a new instance
LoadPack == IF packfile.exists THEN PickleLoad(packfile.tab) ELSE EmptyPack

\* LocalPool.__init__: a new instance replaces instance p
Open(p) ==
    /\ Begin(p)
    /\ pack' = [pack EXCEPT ![p] = LoadPack]
    /\ stored' = [stored EXCEPT ![p] = {}]
    /\ UNCHANGED <<files, dirs, filler, packfile, stale, op, durable,
                   overlapped>>

Step(p, rec) == op' = [op EXCEPT ![p] = rec]

\* the staging directory after a call that leaves its temp file behind
Leave(o) ==
    IF o.tmp /\ Cardinality(stale) < MaxStale
    THEN stale \cup {[data |-> o.tdata, tab |-> o.ttab]}
    ELSE stale

\* a stream left where it stands
SeekNone(pos) == pos

\* item.seek(0)
Seek0(pos) == 0

\* a write that starts over at offset 0 of the temp file
fwriteOver(tdata, buffer) == buffer

\* f.write(buffer) on a temp file that holds tdata
fwrite(tdata, buffer) == Cat(tdata, buffer)

\* a flush that does not read the pack file
MergeNone(mem, disk) == mem

\* self._pack.update(pickle.load(f))
Merge(mem, disk) == Update(mem, disk)

\* LocalPool.__call__, bytes branch up to the path computation
PutBytes(p, b) ==
    /\ Begin(p)
    /\ LET key == HASH(b) IN
       IF BLen(b) < PACKLIMIT
       THEN /\ pack' = [pack EXCEPT ![p] = Update(@, key :> b)]
            /\ Step(p, [IdleOp EXCEPT !.pc = "ret", !.call = "put",
                            !.kind = "bytes", !.data = b, !.key = key,
                            !.packed = TRUE])
       ELSE /\ Step(p, [IdleOp EXCEPT !.pc = "resolve", !.call = "put",
                            !.kind = "bytes", !.data = b, !.key = key])
            /\ UNCHANGED pack
    /\ UNCHANGED <<files, dirs, filler, packfile, stale, stored, durable,
                   overlapped>>

\* LocalPool.__call__, seekable branch: the hashing pass
PutSeekable(p, b, at) ==
    /\ Begin(p)
    /\ LET chunks == iomap(b, Seek0(at), BLKSIZE)
           hashobj == Feed(Empty, chunks)
       IN  Step(p, [IdleOp EXCEPT !.pc = "resolve", !.call = "put",
                        !.kind = "seek", !.data = b, !.pos = BLen(b),
                        !.hash = hashobj, !.key = HASH(hashobj)])
    /\ UNCHANGED <<files, dirs, filler, packfile, stale, pack, stored,
                   durable, overlapped>>

\* LocalPool.__call__, non-seekable branch: the temp file is created first
PutPipe(p, b) ==
    /\ Begin(p)
    /\ Step(p, [IdleOp EXCEPT !.pc = "copy", !.call = "put", !.kind = "pipe",
                    !.data = b, !.tmp = TRUE])
    /\ UNCHANGED <<files, dirs, filler, packfile, stale, pack, stored,
                   durable, overlapped>>

\* One write into the temp file: f.write(item), or one turn of iomap's loop
Copy(p) ==
    LET o == op[p]
        buffer == Read(o.data, o.pos, BLKSIZE)
    IN
    /\ o.pc = "copy"
    /\ IF o.kind = "bytes"
       THEN Step(p, [o EXCEPT !.tdata = fwrite(o.tdata, o.data),
                         !.pc = "rename"])
       ELSE IF buffer # Empty
       THEN Step(p, [o EXCEPT !.tdata = fwrite(o.tdata, buffer),
                         !.pos = o.pos + BLen(buffer),
                         !.hash = IF o.kind = "pipe" THEN Cat(o.hash, buffer)
                                  ELSE o.hash])
       ELSE IF o.kind = "pipe"
       THEN Step(p, [o EXCEPT !.key = HASH(o.hash), !.pc = "resolve"])
       ELSE Step(p, [o EXCEPT !.pc = "rename"])
    /\ UNCHANGED <<files, dirs, filler, packfile, stale, pack, stored,
                   durable, overlapped, budget,
                   inputs, nvars>>

\* path = self / key, up to the directory it may have to create
Resolve(p) ==
    LET o == op[p]
        r == truediv(Root, o.key, 0)
    IN
    /\ o.pc = "resolve"
    /\ Step(p, [o EXCEPT !.path = r.path, !.mk = r.mk,
                    !.pc = IF r.mk # NoPath THEN "mkdir" ELSE "exists"])
    /\ UNCHANGED <<files, dirs, filler, packfile, stale, pack, stored,
                   durable, overlapped, budget,
                   inputs, nvars>>

\* path.mkdir() in __truediv__: fails when the directory exists by now
Mkdir(p) ==
    LET o == op[p] IN
    /\ o.pc = "mkdir"
    /\ IF o.mk \in dirs
       THEN /\ Step(p, [o EXCEPT !.pc = "ret", !.err = "FileExistsError",
                            !.tmp = FALSE])
            /\ stale' = Leave(o)
            /\ UNCHANGED dirs
       ELSE /\ dirs' = dirs \cup {o.mk}
            /\ Step(p, [o EXCEPT !.pc = "exists"])
            /\ UNCHANGED stale
    /\ UNCHANGED <<files, filler, packfile, pack, stored, durable,
                   overlapped, budget,
                   inputs, nvars>>

\* path.exists() and what each caller does next
ExistsStep(p) ==
    LET o == op[p] IN
    /\ o.pc = "exists"
    /\ IF o.call = "put" /\ o.kind = "pipe"
       THEN IF Exists(o.path)
            THEN Step(p, [o EXCEPT !.pc = "ret", !.tmp = FALSE])
            ELSE Step(p, [o EXCEPT !.pc = "rename"])
       ELSE IF o.call = "put"
       THEN IF Exists(o.path)
            THEN Step(p, [o EXCEPT !.pc = "ret"])
            ELSE Step(p, [o EXCEPT !.pc = "copy", !.tmp = TRUE,
                              !.pos = Seek0(o.pos)])
       ELSE IF o.call = "get"
       THEN IF ~Exists(o.path)
            THEN Step(p, [o EXCEPT !.pc = "ret", !.err = "KeyError"])
            ELSE IF o.path \in DOMAIN files
            THEN Step(p, [o EXCEPT !.pc = "ret", !.rdata = files[o.path]])
            ELSE Step(p, [o EXCEPT !.pc = "ret", !.err = "IsADirectoryError"])
       ELSE IF o.path \in DOMAIN files
            THEN Step(p, [o EXCEPT !.pc = "ret", !.rsize = BLen(files[o.path])])
            ELSE Step(p, [o EXCEPT !.pc = "ret", !.rsize = 0])
    /\ UNCHANGED <<files, dirs, filler, packfile, stale, pack, stored,
                   durable, overlapped, budget,
                   inputs, nvars>>

\* os.rename(f.name, str(path))
Rename(p) ==
    LET o == op[p] IN
    /\ o.pc = "rename"
    /\ files' = Update(files, o.path :> o.tdata)
    /\ Step(p, [o EXCEPT !.pc = "ret", !.tmp = FALSE])
    /\ UNCHANGED <<dirs, filler, packfile, stale, pack, stored, durable,
                   overlapped, budget,
                   inputs, nvars>>

\* LocalPool.__getitem__ up to the path computation
Get(p, k) ==
    /\ Begin(p)
    /\ IF k \in DOMAIN pack[p]
       THEN Step(p, [IdleOp EXCEPT !.pc = "ret", !.call = "get", !.key = k,
                         !.rdata = pack[p][k]])
       ELSE Step(p, [IdleOp EXCEPT !.pc = "resolve", !.call = "get",
                         !.key = k])
    /\ UNCHANGED <<files, dirs, filler, packfile, stale, pack, stored,
                   durable, overlapped>>

\* LocalPool.getsize up to the path computation
GetSize(p, k) ==
    /\ Begin(p)
    /\ IF k \in DOMAIN pack[p]
       THEN Step(p, [IdleOp EXCEPT !.pc = "ret", !.call = "size", !.key = k,
                         !.rsize = BLen(pack[p][k])])
       ELSE Step(p, [IdleOp EXCEPT !.pc = "resolve", !.call = "size",
                         !.key = k])
    /\ UNCHANGED <<files, dirs, filler, packfile, stale, pack, stored,
                   durable, overlapped>>

\* LocalPool.flush: read the pack file and merge it into the pack table
FlushRead(p) ==
    /\ Begin(p)
    /\ pack' = [pack EXCEPT ![p] =
                  IF packfile.exists
                  THEN Merge(@, PickleLoad(packfile.tab)) ELSE @]
    /\ Step(p, [IdleOp EXCEPT !.pc = "dump", !.call = "flush"])
    /\ UNCHANGED <<files, dirs, filler, packfile, stale, stored, durable,
                   overlapped>>

\* LocalPool.flush: pickle the pack table into a temp file
FlushDump(p) ==
    LET o == op[p] IN
    /\ o.pc = "dump"
    /\ Step(p, [o EXCEPT !.pc = "frename", !.tmp = TRUE,
                    !.ttab = PickleDump(pack[p])])
    /\ UNCHANGED <<files, dirs, filler, packfile, stale, pack, stored,
                   durable, overlapped, budget,
                   inputs, nvars>>

\* LocalPool.flush: rename the temp file onto _pack.pickle
FlushRename(p) ==
    LET o == op[p] IN
    /\ o.pc = "frename"
    /\ packfile' = [exists |-> TRUE, tab |-> o.ttab]
    /\ op' = [q \in Pools |->
                IF q = p THEN [o EXCEPT !.pc = "ret", !.tmp = FALSE]
                ELSE IF op[q].pc \in {"dump", "frename"}
                THEN [op[q] EXCEPT !.over = TRUE]
                ELSE op[q]]
    /\ overlapped' = (overlapped \/ o.over)
    /\ UNCHANGED <<files, dirs, filler, stale, pack, stored, durable,
                   budget, inputs, nvars>>

\* The call returns (or raises) to its caller
Return(p) ==
    LET o == op[p] IN
    /\ o.pc = "ret"
    /\ Step(p, IdleOp)
    /\ stored' = [stored EXCEPT ![p] =
                    IF o.call = "put" /\ o.err = "none"
                    THEN @ \cup {[data |-> o.data, key |-> o.key,
                                  packed |-> o.packed]}
                    ELSE @]
    /\ durable' = [durable EXCEPT ![p] =
                     IF o.call = "flush"
                     THEN @ \cup {t \in stored[p] : t.packed}
                     ELSE @]
    /\ UNCHANGED <<files, dirs, filler, packfile, stale, pack, overlapped,
                   budget,
                   inputs, nvars>>

\* A call is cut short at any step: its temp file, if any, stays in _
Abort(p) ==
    LET o == op[p] IN
    /\ o.pc \notin {"idle", "ret"}
    /\ Step(p, IdleOp)
    /\ stale' = Leave(o)
    /\ UNCHANGED <<files, dirs, filler, packfile, pack, stored, durable,
                   overlapped, budget,
                   inputs, nvars>>

\* One Pool instance on the directory
Single == {"A"}

\* The keys a caller asks for: those of Contents and those put returned
Asked(p) == Keys \cup {s.key : s \in stored[p]}

Next ==
    \E p \in Single :
        \/ Open(p)
        \/ \E b \in inputs : PutBytes(p, b)
        \/ \E b \in Contents : \E at \in {0, BLen(b)} : PutSeekable(p, b, at)
        \/ \E b \in inputs : PutPipe(p, b)
        \/ Copy(p)
        \/ Resolve(p)
        \/ Mkdir(p)
        \/ ExistsStep(p)
        \/ Rename(p)
        \/ \E k \in Asked(p) : Get(p, k)
        \/ \E k \in Asked(p) : GetSize(p, k)
        \/ FlushRead(p)
        \/ FlushDump(p)
        \/ FlushRename(p)
        \/ Return(p)
        \/ Abort(p)

Spec == Init /\ [][Next]_vars

\* Several Pool instances writing to the same directory
SharedNext ==
    \E p \in Pools :
        \/ \E b \in inputs : PutBytes(p, b)
        \/ \E b \in Contents : \E at \in {0, BLen(b)} : PutSeekable(p, b, at)
        \/ \E b \in inputs : PutPipe(p, b)
        \/ Copy(p)
        \/ Resolve(p)
        \/ Mkdir(p)
        \/ ExistsStep(p)
        \/ Rename(p)
        \/ FlushRead(p)
        \/ FlushDump(p)
        \/ FlushRename(p)
        \/ Return(p)
        \/ Abort(p)

SharedSpec == SharedInit /\ [][SharedNext]_vars

\* ------------------------------------------------------------ flushes
MaxFlush == 5

\* Two objects below the pack threshold
FlushContents == {[src |-> 3, lo |-> 0, hi |-> n] : n \in 1..2}
FlushInit == StartWith(MaxFlush, FlushContents, {0})

\* Two instances that pack objects and flush
FlushNext ==
    \E p \in Pools :
        \/ \E b \in inputs : PutBytes(p, b)
        \/ FlushRead(p)
        \/ FlushDump(p)
        \/ FlushRename(p)
        \/ Return(p)

FlushSpec == FlushInit /\ [][FlushNext]_vars

\* ------------------------------------------------------------ trie
MaxTrie == 4

\* Large objects whose keys start with two different pairs of digits, two
\* objects to each pair
TrieContents ==
    {[src |-> 2, lo |-> 0, hi |-> PACKLIMIT + n] : n \in 0..3}
TrieKeys == {HASH(b) : b \in TrieContents}

\* One instance on a pool whose root is one object short of DIRLIMIT
\* entries, or has fanned out into a subdirectory for every pair of digits
\* that leads no key of the model
TrieInit ==
    StartWith(MaxTrie, TrieContents,
              {DIRLIMIT - 2, DIRLIMIT - 1 + FANOUT - 2})

TrieNext ==
    \E p \in Single :
        \/ \E b \in inputs : PutBytes(p, b)
        \/ Copy(p)
        \/ Resolve(p)
        \/ Mkdir(p)
        \/ ExistsStep(p)
        \/ Rename(p)
        \/ \E k \in TrieKeys : Get(p, k)
        \/ \E k \in TrieKeys : GetSize(p, k)
        \/ FlushRead(p)
        \/ FlushDump(p)
        \/ FlushRename(p)
        \/ Return(p)

TrieSpec == TrieInit /\ [][TrieNext]_vars

\* ------------------------------------------------------------ text
\* A str (or its UTF-8 bytes: the texts here are ASCII) is a sequence of
\* tokens.  A token is a word of characters, or the HASHLEN hex characters
\* of a digest, kept as one token that names the text hashed.
W(c) == [ch |-> c, h |-> <<>>]
Str(c) == <<W(c)>>
NL == W("\n")
Sep == W(": ")
IsKey(tok) == tok.ch = "#"

\* HASH(text.encode()).hexdigest(), a str
Digest(text) == <<[ch |-> "#", h |-> text]>>

\* len() of a token and of a text, in characters
Width(tok) == IF IsKey(tok) THEN HASHLEN ELSE Len(tok.ch)
RECURSIVE TextLen(_)
TextLen(text) ==
    IF text = <<>> THEN 0 ELSE Width(Head(text)) + TextLen(Tail(text))

\* The words of the model in code point order
Collation ==
    <<"\n", " ", "-", "0", "1", "2", "3", "4", "5", "6", "7", "8", "9",
      ": ", "A", "B", "C", "_data", "_node", "a", "access", "b", "c",
      "exec", "f", "file", "l", "list", "m", "map", "s", "set", "t", "time",
      "title", "true", "x">>
Ord(c) == CHOOSE i \in 1..Len(Collation) : Collation[i] = c

\* str < str.  Digests compare in an order of their own, which is not the
\* order of the texts hashed (here: the reverse of it); a word comes before
\* a digest.
RECURSIVE TextLess(_, _)
TokLess(a, b) ==
    IF IsKey(a) /\ IsKey(b) THEN TextLess(b.h, a.h)
    ELSE IF IsKey(a) THEN FALSE
    ELSE IF IsKey(b) THEN TRUE
    ELSE Ord(a.ch) < Ord(b.ch)
TextLess(x, y) ==
    IF x = <<>> THEN y # <<>>
    ELSE IF y = <<>> THEN FALSE
    ELSE IF Head(x) = Head(y) THEN TextLess(Tail(x), Tail(y))
    ELSE TokLess(Head(x), Head(y))

\* text.splitlines()
RECURSIVE SplitLines(_, _)
SplitLines(text, line) ==
    IF text = <<>> THEN (IF line = <<>> THEN <<>> ELSE <<line>>)
    ELSE IF Head(text) = NL THEN <<line>> \o SplitLines(Tail(text), <<>>)
    ELSE SplitLines(Tail(text), Append(line, Head(text)))
splitlines(text) == SplitLines(text, <<>>)

\* line.partition(': '): <<head, sep, tail>>
RECURSIVE Partition(_, _)
Partition(line, head) ==
    IF line = <<>> THEN <<head, <<>>, <<>> >>
    ELSE IF Head(line) = Sep THEN <<head, <<Sep>>, Tail(line)>>
    ELSE Partition(Tail(line), Append(head, Head(line)))
partition(line) == Partition(line, <<>>)

\* A slice that cuts through a digest
Garbled == <<W("?")>>

\* line[:n]
RECURSIVE Prefix(_, _)
Prefix(line, n) ==
    IF n <= 0 \/ line = <<>> THEN <<>>
    ELSE IF Width(Head(line)) > n THEN Garbled
    ELSE <<Head(line)>> \o Prefix(Tail(line), n - Width(Head(line)))

\* line[-n:]
RECURSIVE Suffix(_, _)
Suffix(line, n) ==
    IF n <= 0 \/ line = <<>> THEN <<>>
    ELSE LET last == line[Len(line)] IN
         IF Width(last) > n THEN Garbled
         ELSE Suffix(SubSeq(line, 1, Len(line) - 1), n - Width(last))
                  \o <<last>>

\* ------------------------------------------------------------ dicts
\* A dict is the sequence of its <<key, value>> items in insertion order.
Has(d, k) == \E i \in 1..Len(d) : d[i][1] = k
Lookup(d, k) == d[CHOOSE i \in 1..Len(d) : d[i][1] = k][2]
\* d[k] = v
Assign(d, k, v) ==
    IF Has(d, k)
    THEN [i \in 1..Len(d) |-> IF d[i][1] = k THEN <<k, v>> ELSE d[i]]
    ELSE Append(d, <<k, v>>)

Range(q) == {q[i] : i \in 1..Len(q)}

\* sorted(set of str)
RECURSIVE SortedSet(_)
SortedSet(S) ==
    IF S = {} THEN <<>>
    ELSE LET least == CHOOSE x \in S : \A y \in S \ {x} : TextLess(x, y)
         IN  <<least>> \o SortedSet(S \ {least})

\* sorted on <<key, value>> tuples
ItemLess(a, b) ==
    IF a[1] = b[1] THEN TextLess(a[2], b[2]) ELSE TextLess(a[1], b[1])
RECURSIVE SortedItemSet(_)
SortedItemSet(S) ==
    IF S = {} THEN <<>>
    ELSE LET least == CHOOSE x \in S : \A y \in S \ {x} : ItemLess(x, y)
         IN  <<least>> \o SortedItemSet(S \ {least})

\* items in insertion order
Unsorted(d) == d

\* sorted(item.items())
SortedItems(d) == SortedItemSet(Range(d))

\* ''.join(map(fmt, seq))
RECURSIVE Join(_)
Join(lines) == IF lines = <<>> THEN <<>> ELSE Head(lines) \o Join(Tail(lines))

\* ------------------------------------------------------------ HFS
\* The pool as the structure layer sees it: key -> blob.
\* pool(item) for a blob of text
StorePut(st, text) == Update(st, Digest(text) :> text)

\* HFS.__call__ on a list, set, dict or str: the blob put into the pool
Render(item) ==
    IF item.t = "list"
    THEN Join([i \in 1..Len(item.v) |-> item.v[i] \o <<NL>>])
    ELSE IF item.t = "set"
    THEN LET q == SortedSet(item.v) IN
         Join([i \in 1..Len(q) |-> q[i] \o <<NL>>])
    ELSE IF item.t = "dict"
    THEN LET q == SortedItems(item.v) IN
         Join([i \in 1..Len(q) |-> q[i][1] \o <<Sep>> \o q[i][2] \o <<NL>>])
    ELSE item.v

\* F(e), with e evaluated once
With(e, F(_)) == CHOOSE r \in {F(x) : x \in {e}} : TRUE

\* HFS.__call__: the key returned and the pool afterwards
hfs(st, item) ==
    With(Render(item),
         LAMBDA text : [key |-> Digest(text), store |-> StorePut(st, text)])

\* hfs(v) for each v of a sequence of str
RECURSIVE PutAll(_, _)
PutAll(st, texts) ==
    IF texts = <<>> THEN st
    ELSE PutAll(hfs(st, [t |-> "str", v |-> Head(texts)]).store, Tail(texts))

\* HFS.getsize
getsize(st, key) == IF key \in DOMAIN st THEN TextLen(st[key]) ELSE 0

\* ------------------------------------------------------------ nodes
\* A Node: its class, self._data (a key for a file; the child keys in
\* construction order for a list or set; the <<name, child key>> items in
\* construction order for a map), self._attrs and self._size (-1: None).
\* Node.__init__
NewNode(type, data, attrs) ==
    [type |-> type, data |-> data,
     attrs |-> Assign(attrs, Str("_node"), Str(type)), size |-> -1]

\* the key hfs(v) returns for a str v
KeyOfStr(v) == hfs(EmptyPack, [t |-> "str", v |-> v]).key

\* c = {k: hfs(v) for k, v in self._attrs.items()}
CommitAttrs(attrs) ==
    [i \in 1..Len(attrs) |-> <<attrs[i][1], KeyOfStr(attrs[i][2])>>]

\* the str values hfs is called on before the _data of a node is put: the
\* attribute values, and for a map the names
Hashed(node) ==
    [i \in 1..Len(node.attrs) |-> node.attrs[i][2]]
        \o (IF node.type = "map"
            THEN [i \in 1..Len(node.data) |-> node.data[i][1]]
            ELSE <<>>)

\* a payload whose map lines start with the name itself
PayloadByName(node) ==
    IF node.type = "list" THEN [t |-> "list", v |-> node.data]
    ELSE IF node.type = "set" THEN [t |-> "set", v |-> Range(node.data)]
    ELSE [t |-> "dict", v |-> node.data]

\* The payload a container commits as its _data blob
Payload(node) ==
    IF node.type = "list" THEN [t |-> "list", v |-> node.data]
    ELSE IF node.type = "set" THEN [t |-> "set", v |-> Range(node.data)]
    ELSE [t |-> "dict",
          v |-> [i \in 1..Len(node.data) |->
                   <<KeyOfStr(node.data[i][1]), node.data[i][2]>>]]

\* c['_data']: the key and the pool afterwards
PutData(st, node) ==
    IF node.type = "file" THEN [key |-> node.data, store |-> st]
    ELSE hfs(st, Payload(node))

\* Node.commit, ContainerNode.commit and MapNode.commit: the key returned,
\* the pool afterwards and the size the node records
Commit(st, node) ==
    With(PutData(PutAll(st, Hashed(node)), node), LAMBDA put :
    With(hfs(put.store,
             [t |-> "dict",
              v |-> Assign(CommitAttrs(node.attrs), Str("_data"), put.key)]),
         LAMBDA out :
            [key |-> out.key, store |-> out.store,
             size |-> getsize(put.store, put.key)]))

\* Node._types: the registry filled by Node.register
Types == {"file", "list", "set", "map"}
TypeOf(tag) == CHOOSE t \in Types : Digest(Str(t)) = tag

\* attrs of Node.load: every line partitioned at ': '
RECURSIVE ParseAttrs(_, _)
ParseAttrs(lines, attrs) ==
    IF lines = <<>> THEN attrs
    ELSE LET part == partition(Head(lines)) IN
         ParseAttrs(Tail(lines), Assign(attrs, part[1], part[3]))

\* set(lines), in the order of the first occurrences
RECURSIVE Dedup(_, _)
Dedup(lines, seen) ==
    IF lines = <<>> THEN seen
    ELSE Dedup(Tail(lines),
               IF Head(lines) \in Range(seen) THEN seen
               ELSE Append(seen, Head(lines)))

\* the dict comprehension of MapNode.parse
RECURSIVE ParseMap(_, _, _)
ParseMap(st, lines, data) ==
    IF lines = <<>> THEN data
    ELSE ParseMap(st, Tail(lines),
                  Assign(data, st[Prefix(Head(lines), HASHLEN)],
                         Suffix(Head(lines), HASHLEN)))

Raise(e) == [err |-> e, node |-> NoNode]

\* FileNode.parse, ListNode.parse, SetNode.parse, MapNode.parse
Parse(st, type, attrs) ==
    IF ~Has(attrs, Str("_data")) THEN Raise("KeyError")
    ELSE IF type = "file"
    THEN [err |-> "none",
          node |-> NewNode(type, Lookup(attrs, Str("_data")), attrs)]
    ELSE IF Lookup(attrs, Str("_data")) \notin DOMAIN st
    THEN Raise("KeyError")
    ELSE With(splitlines(st[Lookup(attrs, Str("_data"))]), LAMBDA lines :
         IF type = "list"
         THEN [err |-> "none", node |-> NewNode(type, lines, attrs)]
         ELSE IF type = "set"
         THEN [err |-> "none",
               node |-> NewNode(type, Dedup(lines, <<>>), attrs)]
         ELSE IF \E i \in 1..Len(lines) :
                     Prefix(lines[i], HASHLEN) \notin DOMAIN st
         THEN Raise("KeyError")
         ELSE [err |-> "none",
               node |-> NewNode(type, ParseMap(st, lines, <<>>), attrs)])

\* Node.load
Load(st, text) ==
    With(ParseAttrs(splitlines(text), <<>>), LAMBDA attrs :
    IF ~Has(attrs, Str("_node")) THEN Raise("KeyError")
    ELSE IF \A t \in Types : Digest(Str(t)) # Lookup(attrs, Str("_node"))
    THEN Raise("KeyError")
    ELSE With(Parse(st, TypeOf(Lookup(attrs, Str("_node"))), attrs),
              LAMBDA got :
         IF got.err # "none" THEN got
         ELSE [err |-> "none",
               node |-> [got.node EXCEPT
                           !.size = getsize(st, Lookup(attrs, Str("_data")))]]))

\* int(text, base): [err, val]
Digits == <<"0", "1", "2", "3", "4", "5", "6", "7", "8", "9">>
IsDigit(tok, base) == \E i \in 1..base : Digits[i] = tok.ch
DigitOf(tok) == (CHOOSE i \in 1..Len(Digits) : Digits[i] = tok.ch) - 1
RECURSIVE Value(_, _, _)
Value(text, base, acc) ==
    IF text = <<>> THEN acc
    ELSE Value(Tail(text), base, acc * base + DigitOf(Head(text)))
int(text, base) ==
    LET neg == text # <<>> /\ Head(text) = W("-")
        body == IF neg THEN Tail(text) ELSE text
    IN  IF body = <<>> \/ \E i \in 1..Len(body) : ~IsDigit(body[i], base)
        THEN [err |-> "ValueError", val |-> 0]
        ELSE [err |-> "none",
              val |-> IF neg THEN 0 - Value(body, base, 0)
                      ELSE Value(body, base, 0)]

\* str(i) for a small i >= 0
Decimal(i) == Str(Digits[i + 1])

FILE_MODE == 33206
EXEC_MODE == 33279

\* FileNode.access and ContainerNode.access
Access(node) ==
    IF node.type = "file"
    THEN IF Has(node.attrs, Str("access"))
         THEN int(Lookup(node.attrs, Str("access")), 8)
         ELSE IF Has(node.attrs, Str("exec"))
         THEN [err |-> "none", val |-> EXEC_MODE]
         ELSE [err |-> "none", val |-> FILE_MODE]
    ELSE IF Has(node.attrs, Str("access"))
         THEN int(Lookup(node.attrs, Str("access")), 8)
         ELSE int(<<W("4"), W("0"), W("7"), W("7"), W("7")>>, 8)

\* a list indexed from 1
ListItemFromOne(data, i) ==
    IF i >= 1 /\ i <= Len(data) THEN [err |-> "none", key |-> data[i]]
    ELSE [err |-> "IndexError", key |-> <<>>]

\* self._data[i] on a list: negative indices count from the end
ListItem(data, i) ==
    IF i >= 0 /\ i < Len(data) THEN [err |-> "none", key |-> data[i + 1]]
    ELSE IF i < 0 /\ 0 - i <= Len(data)
    THEN [err |-> "none", key |-> data[Len(data) + i + 1]]
    ELSE [err |-> "IndexError", key |-> <<>>]

\* ListNode.__getitem__, SetNode.__getitem__, ContainerNode.__getitem__ (a
\* map); a FileNode has none
GetItem(node, part) ==
    IF node.type = "list"
    THEN With(int(part, 10), LAMBDA i :
         IF i.err # "none" THEN [err |-> i.err, key |-> <<>>]
         ELSE ListItem(node.data, i.val))
    ELSE IF node.type = "set" THEN [err |-> "none", key |-> part]
    ELSE IF node.type = "map"
    THEN IF Has(node.data, part)
         THEN [err |-> "none", key |-> Lookup(node.data, part)]
         ELSE [err |-> "KeyError", key |-> <<>>]
    ELSE [err |-> "TypeError", key |-> <<>>]

\* Node.load(self, self[key:str])
LoadKey(st, key) ==
    IF key \notin DOMAIN st THEN Raise("KeyError") ELSE Load(st, st[key])

\* the loop of HFS.open over the parts of the path after '/'
RECURSIVE Walk(_, _, _)
Walk(st, pos, parts) ==
    IF pos.err # "none" \/ parts = <<>> THEN pos
    ELSE With(GetItem(pos.node, Head(parts)), LAMBDA item :
         IF item.err # "none" THEN Raise(item.err)
         ELSE With(LoadKey(st, item.key),
                   LAMBDA next : Walk(st, next, Tail(parts))))

\* HFS.open
open(st, r, parts) ==
    With(LoadKey(st, r), LAMBDA pos : Walk(st, pos, parts))

\* HFSFuse.getattr: the errno raised, the exception that escapes, or the
\* st_mode and st_size returned
getattr(st, r, parts) ==
    With(open(st, r, parts), LAMBDA got :
    IF got.err = "KeyError"
    THEN [errno |-> "ENOENT", exc |-> "none", mode |-> 0, size |-> 0]
    ELSE IF got.err # "none"
    THEN [errno |-> "none", exc |-> got.err, mode |-> 0, size |-> 0]
    ELSE With(Access(got.node), LAMBDA access :
         IF access.err # "none"
         THEN [errno |-> "none", exc |-> access.err, mode |-> 0, size |-> 0]
         ELSE [errno |-> "none", exc |-> "none", mode |-> access.val,
               size |-> got.node.size]))

\* ------------------------------------------------------------ commits
\* No pool instance is in use: the structure layer works on nstore
PoolAtRest ==
    /\ files = [q \in {} |-> Empty]
    /\ dirs = {}
    /\ filler = 0
    /\ packfile = [exists |-> FALSE, tab |-> {}]
    /\ stale = {}
    /\ pack = [p \in Pools |-> EmptyPack]
    /\ op = [p \in Pools |-> IdleOp]
    /\ stored = [p \in Pools |-> {}]
    /\ durable = [p \in Pools |-> {}]
    /\ overlapped = FALSE
    /\ budget = 0
    /\ inputs = {}

MaxKids == 2

\* The blobs put before any node is built, and their keys
Blobs == <<Str("A"), Str("B"), Str("C")>>
BlobStore == PutAll(EmptyPack, Blobs)
Kids == {Digest(Blobs[i]) : i \in 1..Len(Blobs)}
Entries ==
    {<<Str("a"), Digest(Blobs[1])>>, <<Str("b"), Digest(Blobs[2])>>,
     <<Str("c"), Digest(Blobs[1])>>}

\* The keyword arguments a caller gives a node
AttrSets ==
    { <<>>,
      << <<Str("title"), Str("t")>> >>,
      << <<Str("access"), <<W("1"), W("0"), W("0"), W("6"), W("4"), W("4")>> >> >>,
      << <<Str("exec"), Str("true")>> >>,
      << <<Str("title"), Str("t")>>, <<Str("time"), Str("0")>> >>,
      << <<Str("exec"), Str("true")>>, <<Str("access"), <<W("7"), W("5"), W("5")>> >> >> }

\* The sequences of up to n elements of S that repeat none
NoRepeat(S, n) ==
    {q \in UNION {[1..m -> S] : m \in 0..n} :
        \A i, j \in 1..Len(q) : i # j => q[i] # q[j]}

\* The same entries in every order
Perms(q) == {r \in [1..Len(q) -> Range(q)] : Range(r) = Range(q)}

\* The first argument of each node class
DataOf(type) ==
    IF type = "file" THEN Kids
    ELSE IF type = "map" THEN NoRepeat(Entries, MaxKids)
    ELSE NoRepeat(Kids, MaxKids)

\* A caller builds a node, and a second node from the same entries
NodeInit ==
    /\ PoolAtRest
    /\ nstore = BlobStore
    /\ \E type \in Types : \E d \in DataOf(type) : \E a \in AttrSets :
        /\ subj = NewNode(type, d, a)
        /\ \E b \in Perms(a) :
           \E e \in (IF type = "file" THEN {d} ELSE Perms(d)) :
               twin = NewNode(type, e, b)
    /\ done = NoKeys
    /\ loaded = NotLoaded
    /\ root = <<>>
    /\ shape = 0
    /\ result = NoResult
    /\ snap = NoSnap

\* hfs(subj)
CommitSubj ==
    /\ done.k1 = <<>>
    /\ \E c \in {Commit(nstore, subj)} :
        /\ nstore' = c.store
        /\ subj' = [subj EXCEPT !.size = c.size]
        /\ done' = [done EXCEPT !.k1 = c.key]
    /\ UNCHANGED <<pvars, snap, twin, loaded, root, shape, result>>

\* hfs(twin)
CommitTwin ==
    /\ done.kt = <<>>
    /\ \E c \in {Commit(nstore, twin)} :
        /\ nstore' = c.store
        /\ twin' = [twin EXCEPT !.size = c.size]
        /\ done' = [done EXCEPT !.kt = c.key]
    /\ UNCHANGED <<pvars, snap, subj, loaded, root, shape, result>>

\* Node.load(hfs, hfs[k1:str])
LoadSubj ==
    /\ done.k1 # <<>>
    /\ loaded = NotLoaded
    /\ loaded' = LoadKey(nstore, done.k1)
    /\ UNCHANGED <<pvars, snap, nstore, subj, twin, done, root, shape, result>>

\* hfs(loaded)
Recommit ==
    /\ loaded.err = "none"
    /\ done.k2 = <<>>
    /\ \E c \in {Commit(nstore, loaded.node)} :
        /\ nstore' = c.store
        /\ loaded' = [loaded EXCEPT !.node.size = c.size]
        /\ done' = [done EXCEPT !.k2 = c.key]
    /\ UNCHANGED <<pvars, snap, subj, twin, root, shape, result>>

NodeNext ==
    \/ CommitSubj
    \/ CommitTwin
    \/ LoadSubj
    \/ Recommit

NodeSpec == NodeInit /\ [][NodeNext]_vars

\* ------------------------------------------------------------ mount
MaxList == 3
MaxDepth == 2

\* The tree a caller commits: a logical node is its class, its attributes
\* and the blob of a file or the names and subtrees of a container.
Blob(i) == [j \in 1..(i + 1) |-> W("A")]
Leaf(i) ==
    [type |-> "file", attrs |-> <<>>, blob |-> Blob(i), names |-> <<>>,
     kids |-> <<>>]
Tree(n) ==
    [type |-> "map", attrs |-> <<>>, blob |-> <<>>,
     names |-> <<Str("l"), Str("s"), Str("f")>>,
     kids |->
        << [type |-> "list", attrs |-> <<>>, blob |-> <<>>, names |-> <<>>,
            kids |-> [i \in 1..n |-> Leaf(i - 1)]],
           [type |-> "set", attrs |-> <<>>, blob |-> <<>>, names |-> <<>>,
            kids |-> [i \in 1..Min(n, 2) |-> Leaf(i - 1)]],
           [type |-> "file", attrs |-> << <<Str("title"), Str("t")>> >>,
            blob |-> Blob(0), names |-> <<>>, kids |-> <<>>] >>]

\* hfs(Node(...)) bottom-up over a tree: the blob of a file is put, the
\* subtrees of a container are committed, then the node itself
RECURSIVE CommitTree(_, _)
RECURSIVE CommitKids(_, _)
CommitKids(st, kids) ==
    IF kids = <<>> THEN [keys |-> <<>>, store |-> st]
    ELSE With(CommitTree(st, Head(kids)), LAMBDA c :
         With(CommitKids(c.store, Tail(kids)), LAMBDA rest :
              [keys |-> <<c.key>> \o rest.keys, store |-> rest.store]))
CommitTree(st, t) ==
    IF t.type = "file"
    THEN With(hfs(st, [t |-> "str", v |-> t.blob]), LAMBDA put :
         Commit(put.store, NewNode("file", put.key, t.attrs)))
    ELSE With(CommitKids(st, t.kids), LAMBDA sub :
         Commit(sub.store,
                NewNode(t.type,
                        IF t.type = "map"
                        THEN [i \in 1..Len(t.kids) |->
                                <<t.names[i], sub.keys[i]>>]
                        ELSE sub.keys,
                        t.attrs)))

KeyOf(t) == CommitTree(EmptyPack, t).key

\* The segments callers ask for and the parts of their paths
Segs ==
    {Str("l"), Str("s"), Str("f"), Str("x"), <<W("-"), W("1")>>}
        \cup {Decimal(i) : i \in 0..MaxList}
        \cup {KeyOf(Leaf(0)), KeyOf(Leaf(2)), Digest(Str("x"))}
Paths == UNION {[1..m -> Segs] : m \in 0..MaxDepth}

\* An empty pool and an HFS not yet bound to a root
OpenInit ==
    /\ PoolAtRest
    /\ nstore = EmptyPack
    /\ subj = NoNode
    /\ twin = NoNode
    /\ done = NoKeys
    /\ loaded = NotLoaded
    /\ root = <<>>
    /\ shape \in 0..MaxList
    /\ result = NoResult
    /\ snap = NoSnap

\* The tree is committed and an HFS is bound to its key
Mount ==
    /\ root = <<>>
    /\ \E c \in {CommitTree(nstore, Tree(shape))} :
        /\ nstore' = c.store
        /\ root' = c.key
    /\ UNCHANGED <<pvars, snap, subj, twin, done, loaded, shape, result>>

\* hfs.open(path)
OpenPath(parts) ==
    /\ root # <<>>
    /\ result = NoResult
    /\ \E got \in {open(nstore, root, parts)} :
        result' = [call |-> "open", path |-> parts, err |-> got.err,
                   node |-> got.node, errno |-> "none", mode |-> 0,
                   size |-> 0]
    /\ UNCHANGED <<pvars, snap, nstore, subj, twin, done, loaded, root, shape>>

\* HFSFuse.getattr(path); the tree gives no node a time, uid or gid
GetattrPath(parts) ==
    /\ root # <<>>
    /\ result = NoResult
    /\ \E got \in {getattr(nstore, root, parts)} :
        result' = [call |-> "getattr", path |-> parts, err |-> got.exc,
                   node |-> NoNode, errno |-> got.errno, mode |-> got.mode,
                   size |-> got.size]
    /\ UNCHANGED <<pvars, snap, nstore, subj, twin, done, loaded, root, shape>>

\* The caller has taken the outcome of its call
Taken ==
    /\ result # NoResult
    /\ result' = NoResult
    /\ UNCHANGED <<pvars, snap, nstore, subj, twin, done, loaded, root, shape>>

OpenNext ==
    \/ Mount
    \/ Taken
    \/ \E parts \in Paths : OpenPath(parts)
    \/ \E parts \in Paths : GetattrPath(parts)

OpenSpec == OpenInit /\ [][OpenNext]_vars

\* ------------------------------------------------------------ envelopes
\* The blobs a pool can hold where a caller expects an envelope: any
\* attribute lines, a _node line naming a registered class, a class that
\* is not registered ('x') or none, and a _data line naming a blob of the
\* pool, a key absent from the pool or none.  <<>> stands for "no line".
NoLine == <<>>
Tags == {Digest(Str(t)) : t \in Types \cup {"x"}}
EmptyBlob == <<>>
AbsentKey == Digest(Str("A"))
Envelopes ==
    [tag : Tags \cup {NoLine},
     data : {NoLine, Digest(EmptyBlob), AbsentKey},
     attrs : AttrSets]

\* The text of an envelope, as hfs(dict) writes it
EnvText(e) ==
    Render([t |-> "dict",
            v |-> CommitAttrs(e.attrs)
                    \o (IF e.tag = NoLine THEN <<>>
                        ELSE << <<Str("_node"), e.tag>> >>)
                    \o (IF e.data = NoLine THEN <<>>
                        ELSE << <<Str("_data"), e.data>> >>)])

\* The pool after pool(text) for each text of a set: key -> blob
PutTexts(texts) ==
    [k \in {Digest(text) : text \in texts} |->
        CHOOSE text \in texts : Digest(text) = k]

LoadStore == PutTexts({EmptyBlob} \cup {EnvText(e) : e \in Envelopes})

\* KeyError(key) of LocalPool.__getitem__
NotFound == "KeyError"

LoadInit ==
    /\ PoolAtRest
    /\ nstore = LoadStore
    /\ subj = NoNode
    /\ twin = NoNode
    /\ done = NoKeys
    /\ loaded = NotLoaded
    /\ root = <<>>
    /\ shape = 0
    /\ result = NoResult
    /\ snap = NoSnap

\* Node.load(hfs, hfs[key:str])
LoadNode(key) ==
    /\ result = NoResult
    /\ \E got \in {LoadKey(nstore, key)} :
        result' = [call |-> "load", path |-> <<key>>, err |-> got.err,
                   node |-> got.node, errno |-> "none", mode |-> 0,
                   size |-> 0]
    /\ UNCHANGED <<pvars, snap, nstore, subj, twin, done, loaded, root, shape>>

LoadNext ==
    \/ Taken
    \/ \E key \in DOMAIN nstore \cup {AbsentKey} : LoadNode(key)

LoadSpec == LoadInit /\ [][LoadNext]_vars

\* ------------------------------------------------------------ snapshot
\* snapshot(hfs, path) as main calls it without -F, -D, -s or -S options:
\* no attributes, no hash file left.  Names are resolved as stat() resolves
\* them, through links, so an entry of a directory is a name and the inode
\* it leads to.
MaxItems == 2

\* The inodes: the target directory, a directory, a regular file, a fifo
\* and a hash file; Broken is where a dangling link leads.
TopDir == 1
SubDir == 2
Plain == 3
Fifo == 4
HashFile == 5
Broken == 0
Inodes == {TopDir, SubDir, Plain, Fifo, HashFile}

HashName == ".hfssnapshot"
Item(name, to) == [name |-> name, to |-> to]

\* The entries the two directories can have: the target holds the other
\* directory (twice: once by a link), the file (twice), a link to itself,
\* a dangling link and the fifo; the other directory holds the file, links
\* to the target and to itself, and a hash file.
TopItems ==
    {Item("a", SubDir), Item("b", Plain), Item("c", SubDir),
     Item("d", TopDir), Item("e", Broken), Item("f", Fifo), Item("g", Plain)}
SubItems ==
    {Item("x", Plain), Item("y", TopDir), Item("z", SubDir),
     Item(HashName, HashFile)}
UpTo(S, n) == {T \in SUBSET S : Cardinality(T) <= n}

\* path.is_file(), path.is_dir()
Kind(i) ==
    IF i \in {TopDir, SubDir} THEN "dir"
    ELSE IF i \in {Plain, HashFile} THEN "file"
    ELSE "other"

\* path.iterdir()
ItemsOf(tree, i) == IF i = TopDir THEN tree.top ELSE tree.sub

\* The values of the keys memo: None, the key of a file node, the key of a
\* map node, and what hf.read_text().strip().lower() gives: a key, or ''
\* for a hash file that holds nothing
None == [k |-> "None", of |-> {}]
FileKey(i) == [k |-> "file", of |-> {i}]
MapKey(data) == [k |-> "map", of |-> data]
GivenKey == [k |-> "text", of |-> {}]
EmptyText == [k |-> "", of |-> {}]

\* bool(key)
Truthy(key) == key.k \notin {"None", ""}

\* hf.is_file() for hf = path / '.hfssnapshot'
HasHashFile(tree, i) ==
    \E item \in ItemsOf(tree, i) :
        item.name = HashName /\ Kind(item.to) = "file"

\* A call of snapshot that has not started
Ready(tree, use, process) ==
    [out |-> "ready", tree |-> tree, use_hashfile |-> use,
     process_hashfile |-> process, keys |-> [i \in {} |-> None],
     stack |-> <<>>, printed |-> [i \in Inodes |-> 0], at |-> Broken,
     got |-> None, calls |-> 0]

\* return key: to the caller of snapshot, or into data[item.name] of the
\* directory that is iterating
Deliver(s, name, key) ==
    IF s.stack = <<>>
    THEN [s EXCEPT !.out = "returned", !.got = key]
    ELSE [s EXCEPT !.got = key,
                   !.stack[Len(s.stack)].data =
                       IF Truthy(key) THEN @ \cup {<<name, key>>} ELSE @]

\* an exception leaves every frame
Fail(s, e) == [s EXCEPT !.out = e, !.stack = <<>>]

\* snapshot(hfs, item) from its first line to the return, the raise or
\* the start of the loop over the directory
Enter(s, name, to) ==
    IF to = Broken
    THEN Fail([s EXCEPT !.calls = @ + 1, !.at = Broken], "FileNotFoundError")
    ELSE With([s EXCEPT !.calls = @ + 1, !.at = to], LAMBDA c :
         IF to \in DOMAIN c.keys
         THEN IF Truthy(c.keys[to]) THEN Deliver(c, name, c.keys[to])
              ELSE Fail(c, "ValueError")
         ELSE IF Kind(to) = "file"
         THEN Deliver([c EXCEPT !.printed[to] = @ + 1,
                                !.keys = Update(@, to :> FileKey(to))],
                      name, FileKey(to))
         ELSE IF Kind(to) = "dir"
         THEN IF c.use_hashfile /\ HasHashFile(c.tree, to)
              THEN Deliver([c EXCEPT !.printed[to] = @ + 1,
                                     !.keys = Update(@, to :> c.tree.text)],
                           name, c.tree.text)
              ELSE [c EXCEPT !.printed[to] = @ + 1,
                             !.keys = Update(@, to :> None),
                             !.stack = Append(@, [inode |-> to, name |-> name,
                                                  todo |-> ItemsOf(c.tree, to),
                                                  data |-> {}])]
         ELSE Deliver(c, name, None))

SnapAtRest ==
    /\ PoolAtRest
    /\ nstore = EmptyPack
    /\ subj = NoNode
    /\ twin = NoNode
    /\ done = NoKeys
    /\ loaded = NotLoaded
    /\ root = <<>>
    /\ shape = 0
    /\ result = NoResult

SnapInit ==
    /\ SnapAtRest
    /\ \E top \in UpTo(TopItems, MaxItems) : \E sub \in UpTo(SubItems, MaxItems) :
       \E text \in {GivenKey, EmptyText} : \E use, process \in BOOLEAN :
           snap = Ready([top |-> top, sub |-> sub, text |-> text], use, process)

Top == snap.stack[Len(snap.stack)]
Iterating == snap.out = "running" /\ snap.stack # <<>>
Without(item) == [snap EXCEPT !.stack[Len(snap.stack)].todo = @ \ {item}]
Skipped(item) == item.name = HashName /\ ~snap.process_hashfile

\* main calls snapshot(hfs, target)
Call ==
    /\ snap.out = "ready"
    /\ snap' = Enter([snap EXCEPT !.out = "running"], "", TopDir)
    /\ UNCHANGED <<pvars, nstore, subj, twin, done, loaded, root, shape, result>>

\* the loop over path.iterdir(): continue at the hash file
Continue ==
    /\ Iterating
    /\ \E item \in Top.todo :
        /\ Skipped(item)
        /\ snap' = Without(item)
    /\ UNCHANGED <<pvars, nstore, subj, twin, done, loaded, root, shape, result>>

\* the loop over path.iterdir(): key = snapshot(hfs, item, keys=keys)
Descend ==
    /\ Iterating
    /\ \E item \in Top.todo :
        /\ ~Skipped(item)
        /\ snap' = Enter(Without(item), item.name, item.to)
    /\ UNCHANGED <<pvars, nstore, subj, twin, done, loaded, root, shape, result>>

\* after the loop: keys[inode] = hfs(MapNode(data)); return keys[inode]
Complete ==
    /\ Iterating
    /\ Top.todo = {}
    /\ \E key \in {MapKey(Top.data)} :
        snap' = Deliver([snap EXCEPT
                           !.keys = Update(@, Top.inode :> key),
                           !.stack = SubSeq(@, 1, Len(@) - 1)],
                        Top.name, key)
    /\ UNCHANGED <<pvars, nstore, subj, twin, done, loaded, root, shape, result>>

SnapNext == Call \/ Continue \/ Descend \/ Complete

\* The call runs on its own thread of control: a step that can be taken is
\* taken
SnapSpec == SnapInit /\ [][SnapNext]_vars /\ WF_vars(SnapNext)

\* ------------------------------------------------------------ pool claims
Missing == [src |-> -1, lo |-> 0, hi |-> 0]

\* LocalPool.__getitem__ run without interruption in the current state: the
\* bytes instance p holds under key k
Held(p, k) ==
    IF k \in DOMAIN pack[p] THEN pack[p][k]
    ELSE LET path == truediv(Root, k, 0).path IN
         IF path \in DOMAIN files THEN files[path] ELSE Missing

\* The key a path of the pool tree stands for: its components in a row
RECURSIVE Flatten(_)
Flatten(path) ==
    IF path = <<>> THEN <<>> ELSE Head(path) \o Flatten(Tail(path))

PutReturned(p) ==
    op[p].pc = "ret" /\ op[p].call = "put" /\ op[p].err = "none"
GetReturned(p) == op[p].pc = "ret" /\ op[p].call = "get"

\* C1: once put(b) has returned key k on an instance, that instance holds
\* exactly b under k in every later state, and every get(k) that returns
\* on it yields b, whatever the instance has put, got, sized or flushed
\* since and wherever the trie has fanned out.
C1_GetYieldsWhatWasPut ==
    \A p \in Pools : \A s \in stored[p] :
        /\ Held(p, s.key) = s.data
        /\ (GetReturned(p) /\ op[p].key = s.key)
              => (op[p].err = "none" /\ op[p].rdata = s.data)

\* C1 witness: a get has returned the bytes of an object that put stored
\* in a trie subdirectory while another stored object stays in the root.
C1_Witness ==
    \E s \in stored["A"] : \E t \in stored["A"] :
        /\ GetReturned("A") /\ op["A"].key = s.key
        /\ op["A"].rdata = s.data
        /\ Len(op["A"].path) = 2
        /\ <<t.key>> \in DOMAIN files

\* C2: put returns the hex digest of the whole content for in-memory
\* bytes, seekable streams (wherever they stand) and non-seekable streams,
\* so equal contents get equal keys.
C2_PutReturnsDigest ==
    \A p \in Pools :
        /\ PutReturned(p) => op[p].key = HASH(op[p].data)
        /\ \A s \in stored[p] : s.key = HASH(s.data)

\* C2 witness: a put of a stream read in several blocks returns the key an
\* earlier put of the same content returned.
C2_Witness ==
    /\ PutReturned("A")
    /\ op["A"].kind \in {"seek", "pipe"}
    /\ BLen(op["A"].data) > BLKSIZE
    /\ \E s \in stored["A"] : s.data = op["A"].data /\ s.key = op["A"].key

OnDisk(s) == packfile.exists /\ <<s.key, s.data>> \in packfile.tab

\* C4: with a single writer, every object packed before a flush that has
\* returned is in the pack file, and the instance that is open on the
\* directory - the writer or a new one - gets it with the bytes put.
C4_FlushedPackSurvivesReopen ==
    \A p \in Pools : \A s \in durable[p] :
        /\ OnDisk(s)
        /\ Held(p, s.key) = s.data
        /\ (GetReturned(p) /\ op[p].key = s.key)
              => (op[p].err = "none" /\ op[p].rdata = s.data)

\* C4 witness: a new instance, which has put nothing itself, has got an
\* object that was packed and flushed before it was opened.
C4_Witness ==
    \E s \in durable["A"] :
        /\ stored["A"] = {}
        /\ GetReturned("A") /\ op["A"].key = s.key
        /\ op["A"].rdata = s.data

\* C5 as stated: once a flush of an instance has returned, the objects it
\* packed before are in the pack file in every later state, whatever other
\* instances do.
C5_FlushedStaysOnDisk ==
    \A p \in Pools : \A s \in durable[p] : OnDisk(s)

\* C5 amended: once a flush of an instance has returned, the objects it
\* packed before are in the pack file, and stay in it as long as no flush
\* renames a pack file built from a read of the pack file that is older
\* than another flush's rename.
C5_FlushedStaysUnlessOverlapped ==
    ~overlapped => \A p \in Pools : \A s \in durable[p] : OnDisk(s)

\* C5 witness: after A's flush returned, B, which packed nothing itself,
\* has flushed in turn: B merged A's object and the pack file still has it.
C5_Witness ==
    /\ ~overlapped
    /\ durable["A"] # {}
    /\ stored["B"] = {}
    /\ op["B"].pc = "ret" /\ op["B"].call = "flush"
    /\ \A s \in durable["A"] : OnDisk(s) /\ s.key \in DOMAIN pack["B"]

\* The paths of the pool tree that stand for key k
PathsOf(k) == {q \in DOMAIN files : Flatten(q) = k}

\* C11: whatever the input kind, a put of fewer than PACKLIMIT bytes leaves
\* the object in the pack table and not in a file, and a put of PACKLIMIT
\* bytes or more leaves it in a file and not in the pack table.
C11_PackedIffSmall ==
    \A p \in Pools :
        (PutReturned(p) /\ op[p].data \notin {s.data : s \in stored[p]}) =>
            IF BLen(op[p].data) < PACKLIMIT
            THEN op[p].key \in DOMAIN pack[p] /\ PathsOf(op[p].key) = {}
            ELSE op[p].key \notin DOMAIN pack[p] /\ PathsOf(op[p].key) # {}

\* The puts of instance p that returned an object too large to pack
Large(p) == {s \in stored[p] : ~s.packed}
Lead(k) == SubSeq(k, 1, 2)
InRoot(s) == <<s.key>> \in DOMAIN files
Subdirs == {d \in dirs : Len(d) = 1}

\* The objects of TrieContents that lie in the root, and those that lie
\* elsewhere in the tree
RootKeys == {k \in TrieKeys : <<k>> \in DOMAIN files}
LaterKeys == {k \in TrieKeys : PathsOf(k) # {}} \ RootKeys

\* A pool that was fresh, has taken DIRLIMIT - 2 large objects, and has
\* then taken every object of TrieContents
PutsOnly ==
    /\ filler = DIRLIMIT - 2
    /\ {s.data : s \in stored["A"]} = TrieContents

C13_NoDirectoryOverfull == \A d \in {Root} \cup dirs : Count(d) <= DIRMAX

\* C13 witness: the root holds its DIRLIMIT - 1 objects, the staging
\* directory, the pack file and a subdirectory for every pair of digits.
C13_Witness ==
    /\ packfile.exists
    /\ Cardinality(Subdirs) = 2
    /\ Count(Root) = DIRLIMIT + 1 + FANOUT

\* The directories named by the first n pairs of digits of key k
Chain(k, n) == [i \in 1..n |-> SubSeq(k, 2 * i - 1, 2 * i)]

\* The deepest directory for key k that exists
Deepest(k) ==
    CHOOSE n \in 0..(HASHLEN \div 2 - 1) :
        /\ \A m \in 1..n : Chain(k, m) \in dirs
        /\ Chain(k, n + 1) \notin dirs

\* Where the placement rule puts a new object of key k
Placement(k) ==
    LET n == Deepest(k) IN
    IF Count(Chain(k, n)) <= DIRLIMIT - 1
    THEN [path |-> Append(Chain(k, n), SubSeq(k, 2 * n + 1, HASHLEN)),
          mk |-> NoPath]
    ELSE [path |-> Append(Chain(k, n + 1), SubSeq(k, 2 * n + 3, HASHLEN)),
          mk |-> Chain(k, n + 1)]

C14_OnePathPerKey ==
    \A q \in DOMAIN files :
        /\ PathsOf(Flatten(q)) = {q}
        /\ truediv(Root, Flatten(q), 0) = [path |-> q, mk |-> NoPath]

\* C14 witness: a key put again after the root filled up has been found
\* at its file in the root, beside the subdirectory for its first two
\* characters, which holds another object.
C14_Witness ==
    /\ PutReturned("A")
    /\ op["A"].path = <<op["A"].key>>
    /\ op["A"].path \in DOMAIN files
    /\ <<Lead(op["A"].key)>> \in dirs
    /\ \E q \in DOMAIN files : Parent(q) = <<Lead(op["A"].key)>>
    /\ op["A"].data \in {s.data : s \in stored["A"]}

\* The steps of a put by instance p of content that has a file already
PutOfPresent(p) ==
    /\ op[p].call = "put"
    /\ op[p].pc # "idle"
    /\ PathsOf(HASH(op[p].data)) # {}

\* C15: whatever kinds of input carry the same content, a file is renamed
\* to the path of a key only when the key has no file, so no key ever has
\* two; and a put of content whose key has a file changes neither the
\* files, the directories nor the pack file, and returns with no temp file
\* left behind.
C15_OneFileCreation ==
    /\ [](\A k \in Keys : Cardinality(PathsOf(k)) <= 1)
    /\ [][\A p \in Pools :
             (op[p].pc = "rename" /\ op'[p].pc = "ret")
                 => (PathsOf(op[p].key) = {}
                     /\ PathsOf(op[p].key)' = {op[p].path})]_vars
    /\ [][\A p \in Pools :
             PutOfPresent(p)
                 => /\ files' = files /\ dirs' = dirs /\ packfile' = packfile
                    /\ op'[p].pc = "ret"
                          => (stale' = stale /\ op'[p].key = HASH(op[p].data)
                              /\ op'[p].err = "none")]_vars

\* C15 witness: content that an earlier put stored as a file has been put
\* again from a non-seekable stream, and the put has returned with one
\* file for the key.
C15_Witness ==
    /\ PutReturned("A")
    /\ op["A"].kind = "pipe"
    /\ \E s \in stored["A"] : s.data = op["A"].data /\ ~s.packed
    /\ Cardinality(PathsOf(op["A"].key)) = 1

\* C16: a put that is interrupted before it returns has added no
\* directory to the pool tree: the subdirectory its path computation was
\* to make, if any, does not exist when the put is given up. (Files reach
\* the tree and entries the pack table only in the step that completes
\* the put.)
C16_InterruptedPutAddsNothing ==
    [][\A p \in Pools :
          (/\ op[p].call = "put"
           /\ op[p].pc \notin {"idle", "ret"}
           /\ op'[p].pc = "idle")
              => (op[p].mk = NoPath \/ op[p].mk \notin dirs)]_vars

FlushReturned(p) == op[p].pc = "ret" /\ op[p].call = "flush"
InFile(k, b) == packfile.exists /\ <<k, b>> \in packfile.tab

\* C20: as long as no flush has overlapped another, the pack file holds
\* what every instance had packed when a flush of it returned, and all
\* that an instance whose flush has just returned holds in memory; a flush
\* takes into the instance's pack table every entry the pack file holds
\* when it reads it, so the instance gets the objects other instances
\* flushed before; and no step of a flush removes or changes an entry of a
\* pack table.
C20_FlushesConverge ==
    /\ [](~overlapped =>
            \A p \in Pools :
                /\ \A s \in durable[p] : InFile(s.key, s.data)
                /\ FlushReturned(p) =>
                      \A k \in DOMAIN pack[p] : InFile(k, pack[p][k]))
    /\ [][\A p \in Pools :
             (Idle(p) /\ op'[p].call = "flush")
                 => \A e \in packfile.tab :
                        /\ e[1] \in DOMAIN pack'[p]
                        /\ pack'[p][e[1]] = e[2]
                        /\ Held(p, e[1])' = e[2]]_vars
    /\ [][\A p \in Pools : \A k \in DOMAIN pack[p] :
             k \in DOMAIN pack'[p] /\ pack'[p][k] = pack[p][k]]_vars

\* C20 witness: A and B packed different objects and flushed in the order
\* A, B, A without overlapping; the pack file holds both objects and each
\* instance holds the object of the other.
C20_Witness ==
    /\ ~overlapped
    /\ FlushReturned("A")
    /\ durable["A"] # {}
    /\ durable["B"] # {}
    /\ {s.key : s \in stored["A"]} \cap {s.key : s \in stored["B"]} = {}
    /\ \A p \in Pools : \A s \in stored[p] :
          InFile(s.key, s.data) /\ \A q \in Pools : Held(q, s.key) = s.data
    /\ Cardinality(packfile.tab) = 2

\* C21: with two instances putting concurrently, under every interleaving
\* of their steps no key has a file at two paths of the pool tree.
C21_OnePathPerKeyShared ==
    \A k \in Keys : Cardinality(PathsOf(k)) <= 1

\* C22: every step of a get or a size, for a key that is present or
\* absent, leaves the files, the directories and the pack table as they
\* were; for a key that has neither a pack entry nor a file, get raises
\* KeyError and size returns 0.
C22_GetAndSizeReadOnly ==
    [][\A p \in Pools :
          op'[p].call \in {"get", "size"} =>
              /\ files' = files
              /\ dirs' = dirs
              /\ pack' = pack
              /\ (/\ op'[p].pc = "ret"
                  /\ op'[p].key \notin DOMAIN pack[p]
                  /\ PathsOf(op'[p].key) = {})
                    => IF op'[p].call = "get"
                       THEN op'[p].err = "KeyError"
                       ELSE op'[p].err = "none" /\ op'[p].rsize = 0]_vars

\* ------------------------------------------------------------ node claims
\* An envelope Node.load cannot build a node from
Malformed(e) ==
    e.tag \notin {Digest(Str(t)) : t \in Types} \/ e.data = NoLine

\* C17: loading an envelope that names an unknown node type or lacks _data
\* or _node yields no node, and the error it raises is not the one raised
\* for a key that is absent from the pool.
C17_LoadFailsDistinguishably ==
    result.call = "load" =>
        \A e \in Envelopes :
            (result.path = <<Digest(EnvText(e))>> /\ Malformed(e))
                => (result.node = NoNode /\ result.err \notin {"none", NotFound})

\* What a caller gave a node: its class, its attributes and its children,
\* whatever the order of the attributes, of a set's children and of a map's
\* entries
Logical(n) ==
    [type |-> n.type, attrs |-> Range(n.attrs),
     data |-> IF n.type \in {"set", "map"} THEN Range(n.data) ELSE n.data]

\* C6: loading the envelope of a committed node and committing the loaded
\* node returns the key of the first commit, for every class of node and
\* every attribute map.
C6_RecommitKeepsKey == done.k2 # <<>> => done.k2 = done.k1

\* C7: two nodes of the same class built from the same entries commit to
\* the same key whatever the order of their attributes, of a set's children
\* or of a map's entries; two lists whose children differ in order commit to
\* different keys.
C7_CommitIsCanonical ==
    (done.k1 # <<>> /\ done.kt # <<>>) =>
        /\ Logical(subj) = Logical(twin) => done.k1 = done.kt
        /\ (subj.type = "list" /\ subj.data # twin.data) => done.k1 # done.kt

C7_Witness ==
    /\ done.k1 # <<>>
    /\ done.kt # <<>>
    /\ subj.type = "map"
    /\ subj.data # twin.data
    /\ subj.attrs # twin.attrs
    /\ Logical(subj) = Logical(twin)

\* The mode FileNode.access is documented to give for the attributes the
\* caller gave
ModeGiven(n) ==
    IF Has(n.attrs, Str("access"))
    THEN int(Lookup(n.attrs, Str("access")), 8)
    ELSE IF Has(n.attrs, Str("exec"))
    THEN [err |-> "none", val |-> EXEC_MODE]
    ELSE [err |-> "none", val |-> FILE_MODE]

\* C10: a FileNode that was committed and loaded has the access its
\* attributes were given: the access attribute read as octal, else 0o100777
\* with an exec attribute, else 0o100666.
C10_LoadedFileAccess ==
    (loaded.err = "none" /\ subj.type = "file") =>
        Access(loaded.node) = ModeGiven(subj)

\* The child a segment names in a logical container: a list by decimal
\* index, a set by the key of a member, a map by name
ChildAt(t, seg) ==
    IF t.type = "list"
    THEN {i \in 1..Len(t.kids) : seg = Decimal(i - 1)}
    ELSE IF t.type = "set"
    THEN {i \in 1..Len(t.kids) : seg = KeyOf(t.kids[i])}
    ELSE IF t.type = "map"
    THEN {i \in 1..Len(t.kids) : seg = t.names[i]}
    ELSE {}

\* The logical node a path names, if every segment names a child
RECURSIVE Named(_, _)
Named(t, parts) ==
    IF parts = <<>> THEN [found |-> TRUE, tree |-> t]
    ELSE IF ChildAt(t, Head(parts)) = {}
    THEN [found |-> FALSE, tree |-> t]
    ELSE Named(t.kids[CHOOSE i \in ChildAt(t, Head(parts)) : TRUE],
               Tail(parts))

\* The bytes of the _data blob of a logical node
DataBytes(t) ==
    IF t.type = "file" THEN Len(t.blob)
    ELSE IF t.type = "map" THEN Len(t.kids) * (2 * HASHLEN + 3)
    ELSE Len(t.kids) * (HASHLEN + 1)

\* A loaded node is the logical node t
IsNode(n, t) ==
    /\ n.type = t.type
    /\ n.size = DataBytes(t)
    /\ IF t.type = "file" THEN n.data = Digest(t.blob)
       ELSE IF t.type = "list"
       THEN n.data = [i \in 1..Len(t.kids) |-> KeyOf(t.kids[i])]
       ELSE IF t.type = "set"
       THEN Range(n.data) = {KeyOf(t.kids[i]) : i \in 1..Len(t.kids)}
       ELSE Range(n.data) =
                {<<t.names[i], KeyOf(t.kids[i])>> : i \in 1..Len(t.kids)}

\* C8: open(path) on a mounted tree returns the node reached from the root
\* by looking each segment up in the container reached so far (a list by
\* decimal index, a map by name, a set by key); open("/") returns the root
\* node; the size of the node returned is the byte length of its _data blob.
C8_OpenWalksTheTree ==
    (result.call = "open" /\ Named(Tree(shape), result.path).found) =>
        /\ result.err = "none"
        /\ IsNode(result.node, Named(Tree(shape), result.path).tree)

C8_Witness ==
    /\ result.call = "open"
    /\ shape = 3
    /\ result.path = <<Str("l"), Decimal(1)>>
    /\ result.node.data = Digest(Blob(1))
    /\ result.node.size = 2

\* C9: for a path with a segment that names no child of the container
\* reached, open raises KeyError and returns no node, and getattr raises
\* ENOENT.
C9_MissingSegmentIsNotFound ==
    (result.call # "none" /\ ~Named(Tree(shape), result.path).found) =>
        /\ result.call = "open" => result.err = "KeyError"
        /\ result.call = "getattr" => result.errno = "ENOENT"

\* The payload blob of the committed map: the blob under the _data key of
\* the envelope that commit returned the key of
MapCommitted == subj.type = "map" /\ done.k1 # <<>>
PayloadBlob ==
    nstore[Lookup(ParseAttrs(splitlines(nstore[done.k1]), <<>>), Str("_data"))]
PayloadLines == splitlines(PayloadBlob)

\* One line per entry of the map, the lines in ascending order of their
\* first HASHLEN characters, every line ended by a newline
LinePerEntry(width) ==
    /\ Len(PayloadLines) = Len(subj.data)
    /\ TextLen(PayloadBlob) = Len(subj.data) * (width + 1)
    /\ \A i, j \in 1..Len(PayloadLines) :
          i < j => TextLess(Prefix(PayloadLines[i], HASHLEN),
                            Prefix(PayloadLines[j], HASHLEN))
    /\ subj.data = <<>> => PayloadBlob = <<>>

OnStack(i) == \E n \in 1..Len(snap.stack) : snap.stack[n].inode = i
Finished(i) == i \in DOMAIN snap.keys /\ ~OnStack(i)
Called == snap.out # "none" /\ snap'.out # "none" /\ snap'.calls > snap.calls

\* C23: on every tree, with or without links that close a cycle, the call
\* of snapshot ends; a call that reaches a directory which is still being
\* iterated raises ValueError and nothing iterates further; a call that
\* reaches a file or directory whose snapshot is complete returns the key
\* recorded for it, and neither prints nor records anything.
C23_SnapshotEndsAndMemoises ==
    /\ <>(snap.out \notin {"ready", "running"})
    /\ [][(Called /\ OnStack(snap'.at))
              => (snap'.out = "ValueError" /\ snap'.stack = <<>>
                  /\ snap'.printed = snap.printed)]_vars
    /\ [][(Called /\ snap'.at # Broken /\ Finished(snap'.at))
              => (/\ snap'.out \in {"running", "returned"}
                  /\ snap'.got = snap.keys[snap'.at]
                  /\ snap'.keys = snap.keys
                  /\ snap'.printed = snap.printed)]_vars

====
